---- MODULE Spec2Model ----
(***************************************************************************)
(* Model of the two data streams of mocap-gs:                              *)
(*   - CameraStream (src/data_streams/camera_stream.py): a daemon thread   *)
(*     running camera_loop against the IDS peak SDK, and a consumer thread *)
(*     calling start_timing / get_current_data / stop;                     *)
(*   - MoCapStream (src/data_streams/mocap_stream.py): a handle around a   *)
(*     NatNet client whose dispatch thread invokes the two listeners.      *)
(* Python attribute reads and writes are atomic (one bytecode under the    *)
(* interpreter lock); a thread switch may happen between any two of them.  *)
(* Optional values are modelled as sequences: <<>> is None, <<v>> is v.    *)
(***************************************************************************)
EXTENDS Integers, Sequences, FiniteSets, TLC

\* ---- bounds of the model ----
NumBuffers == 2
MaxFrames == 2
MaxStops == 2

\* Increments of the camera's nanosecond hardware clock between two fills.
ClockSteps == {100, 1000}

Buffers == 1..NumBuffers

None == <<>>
Some(v) == <<v>>
Val(o) == o[1]

VARIABLES
    \* CameraStream attributes
    running, resize, timestamp, frame, timing_offset,
    \* camera_loop: thread position and locals
    pc, held, heldFill,
    \* IDS peak SDK / hardware state
    libOpen, announced, queued, acquiring, fills,
    \* counters of SDK calls made by camera_loop
    initCalls, closeCalls, startCalls, stopCalls, revokeCalls, announceCalls,
    doubleQueued, enteredLoop, frameWrites, tsWrites,
    \* what ended the session abnormally: "none", "nodevice" (line 55), or
    \* where a call raised: "setup" (lines 54-82) or "loop" (lines 88-103)
    failure,
    \* consumer thread: position, locals of get_current_data, last result
    c_pc, r_off, r_ts, r_tsSrc, r_w0, r_after, ret, retInfo, c_err, stops, t0Src, timed,
    \* MoCapStream: the constructor call, the instance attributes
    m_pc, m_exc, m_attrs, client, latest_timestamp, rigid_body_poses,
    \* the NatNet server: reachable or not, what it has streamed to the client
    serverUp, srvTs, sent,
    \* the caller of the MoCapStream: last result, errors, stop() calls, zero
    m_ret, m_err, m_stops, m_zero

mocVars == <<m_pc, m_exc, m_attrs, client, latest_timestamp, rigid_body_poses,
             serverUp, srvTs, sent, m_ret, m_err, m_stops, m_zero>>

camVars == <<running, resize, timestamp, frame, timing_offset, pc, held,
             heldFill, libOpen, announced, queued, acquiring, fills,
             initCalls, closeCalls, startCalls, stopCalls, revokeCalls,
             announceCalls, doubleQueued, enteredLoop, frameWrites, tsWrites,
             failure, c_pc, r_off, r_ts, r_tsSrc, r_w0, r_after, ret, retInfo, c_err, stops,
             t0Src, timed>>

attrVars == <<running, resize, timestamp, frame, timing_offset>>
sdkVars == <<libOpen, announced, queued, acquiring, fills>>
callVars == <<initCalls, closeCalls, startCalls, stopCalls, revokeCalls,
              announceCalls, doubleQueued, enteredLoop>>
writeVars == <<frameWrites, tsWrites>>
consVars == <<c_pc, r_off, r_ts, r_tsSrc, r_w0, r_after, ret, retInfo, c_err, stops,
              t0Src, timed>>

\* timedelta(seconds=timestamp / 1e9): a timedelta holds whole microseconds,
\* the fraction is rounded half to even.
ToTimedelta(ns) ==
    LET q == ns \div 1000
        r == ns % 1000
    IN  IF r > 500 \/ (r = 500 /\ q % 2 = 1) THEN q + 1 ELSE q

\* cv2.cvtColor(..., COLOR_BAYER_BG2BGR) of the buffer's image, then the
\* optional cv2.resize; image k is the image of the k-th hardware fill.
Decode(k, rs) == [image |-> k, bgr |-> TRUE, resized |-> rs]

\* state of a CameraStream inside __init__ after self.thread.start() (line
\* 43): the thread exists and has not run yet, __init__ has not returned;
\* resize is the default (500, 500), which is truthy
CameraInit ==
    /\ running = TRUE
    /\ resize = TRUE
    /\ timestamp = None
    /\ frame = None
    /\ timing_offset = None
    /\ pc = "initialize"
    /\ held = None
    /\ heldFill = 0
    /\ libOpen = FALSE
    /\ announced = {}
    /\ queued = {}
    /\ acquiring = FALSE
    /\ fills = <<>>
    /\ initCalls = 0
    /\ closeCalls = 0
    /\ startCalls = 0
    /\ stopCalls = 0
    /\ revokeCalls = 0
    /\ announceCalls = 0
    /\ doubleQueued = FALSE
    /\ enteredLoop = FALSE
    /\ frameWrites = 0
    /\ tsWrites = 0
    /\ failure = "none"
    /\ c_pc = "init"
    /\ r_off = None
    /\ r_ts = None
    /\ r_tsSrc = 0
    /\ r_w0 = <<0, 0>>
    /\ r_after = FALSE
    /\ ret = None
    /\ retInfo = [relative |-> FALSE, w0 |-> <<0, 0>>, after |-> FALSE, w1 |-> <<0, 0>>,
                  src |-> 0, t0 |-> 0]
    /\ c_err = FALSE
    /\ stops = 0
    /\ t0Src = 0
    /\ timed = FALSE

\* ---------------------------------------------------------------------
\* camera_loop, one action per SDK call or attribute write.  Every SDK call
\* inside the try block may raise; the calls of the shutdown sequence
\* (lines 109-115) are taken to return normally.
\* ---------------------------------------------------------------------

\* ids_peak.Library.Initialize(); DeviceManager.Instance()
LibraryInitialize ==
    /\ pc = "initialize"
    /\ libOpen' = TRUE
    /\ initCalls' = initCalls + 1
    /\ pc' = "update"
    /\ UNCHANGED <<mocVars, failure, attrVars, held, heldFill, announced, queued, acquiring,
                   fills, closeCalls, startCalls, stopCalls, revokeCalls,
                   announceCalls, doubleQueued, enteredLoop, writeVars,
                   consVars>>

\* device_manager.Update(); if Devices().empty(): running = False; return
DeviceUpdate ==
    /\ pc = "update"
    /\ \/ /\ running' = FALSE
          /\ failure' = "nodevice"
          /\ pc' = "finally"
       \/ /\ pc' = "configure"
          /\ UNCHANGED <<running, failure>>
       \/ /\ pc' = "except"
          /\ failure' = "setup"
          /\ UNCHANGED running
    /\ UNCHANGED <<mocVars, resize, timestamp, frame, timing_offset, held, heldFill,
                   sdkVars, callVars, writeVars, consVars>>

\* OpenDevice, the five parameter nodes, OpenDataStream, PayloadSize
Configure ==
    /\ pc = "configure"
    /\ \/ pc' = "alloc" /\ UNCHANGED failure
       \/ pc' = "except" /\ failure' = "setup"
    /\ UNCHANGED <<mocVars, attrVars, held, heldFill, sdkVars, callVars, writeVars,
                   consVars>>

\* data_stream.QueueBuffer(b): the set of buffers queued to the hardware
\* after the call, and whether b was queued already
QueueBuffer(q, b) == q \cup {b}

\* one pass of `for _ in range(NumBuffersAnnouncedMinRequired())`:
\* AllocAndAnnounceBuffer, then QueueBuffer; either may raise
AllocAndAnnounce ==
    /\ pc = "alloc"
    /\ IF announceCalls < NumBuffers
       THEN LET b == announceCalls + 1 IN
            \/ /\ announced' = announced \cup {b}
               /\ announceCalls' = announceCalls + 1
               /\ queued' = QueueBuffer(queued, b)
               /\ doubleQueued' = (doubleQueued \/ b \in queued)
               /\ pc' = "alloc"
               /\ UNCHANGED failure
            \/ /\ announced' = announced \cup {b}
               /\ announceCalls' = announceCalls + 1
               /\ pc' = "except"
               /\ failure' = "setup"
               /\ UNCHANGED <<queued, doubleQueued>>
            \/ /\ pc' = "except"
               /\ failure' = "setup"
               /\ UNCHANGED <<announced, announceCalls, queued, doubleQueued>>
       ELSE /\ pc' = "start"
            /\ UNCHANGED <<announced, announceCalls, queued, doubleQueued,
                           failure>>
    /\ UNCHANGED <<mocVars, attrVars, held, heldFill, libOpen, acquiring, fills,
                   initCalls, closeCalls, startCalls, stopCalls, revokeCalls,
                   enteredLoop, writeVars, consVars>>

\* TLParamsLocked = 1; data_stream.StartAcquisition(); AcquisitionStart
StartAcquisition ==
    /\ pc = "start"
    /\ \/ /\ pc' = "except"
          /\ failure' = "setup"
          /\ UNCHANGED <<acquiring, startCalls, enteredLoop>>
       \/ /\ acquiring' = TRUE
          /\ startCalls' = startCalls + 1
          /\ \/ /\ pc' = "except"
                /\ failure' = "setup"
                /\ UNCHANGED enteredLoop
             \/ /\ pc' = "loop"
                /\ enteredLoop' = TRUE
                /\ UNCHANGED failure
    /\ UNCHANGED <<mocVars, attrVars, held, heldFill, libOpen, announced, queued,
                   fills, initCalls, closeCalls, stopCalls, revokeCalls,
                   announceCalls, doubleQueued, writeVars, consVars>>

\* Mutant of LoopHead: `while True:`, the running flag is never read.
LoopHeadIgnoresFlag ==
    /\ pc = "loop"
    /\ pc' = "wait"
    /\ UNCHANGED <<mocVars, failure, attrVars, held, heldFill, sdkVars, callVars, writeVars,
                   consVars>>

\* while self.running:
LoopHead ==
    /\ pc = "loop"
    /\ pc' = IF running THEN "wait" ELSE "stop"
    /\ UNCHANGED <<mocVars, failure, attrVars, held, heldFill, sdkVars, callVars, writeVars,
                   consVars>>

\* Count of cache writes; it stops counting at MaxFrames, where the hardware
\* history of the model ends.
Bump(n) == IF n < MaxFrames THEN n + 1 ELSE n

LastNs == IF fills = <<>> THEN 0 ELSE fills[Len(fills)]

\* Mutant of WaitForFinishedBuffer: a timeout is caught inside the loop and
\* the loop goes on with its next iteration (`continue` in place of `break`).
WaitForFinishedBufferRetries ==
    /\ pc = "wait"
    /\ \/ /\ Len(fills) < MaxFrames
          /\ \E b \in queued, d \in ClockSteps :
                /\ fills' = Append(fills, LastNs + d)
                /\ queued' = queued \ {b}
                /\ held' = Some(b)
                /\ heldFill' = Len(fills) + 1
          /\ pc' = "frame"
       \/ /\ pc' = "loop"
          /\ UNCHANGED <<fills, queued, held, heldFill>>
    /\ UNCHANGED <<mocVars, failure, attrVars, libOpen, announced, acquiring,
                   callVars, writeVars, consVars>>

\* buffer = data_stream.WaitForFinishedBuffer(1000): the hardware has filled
\* a queued buffer (image and chunk timestamp), or the call raises (timeout)
WaitForFinishedBuffer ==
    /\ pc = "wait"
    /\ \/ /\ Len(fills) < MaxFrames
          /\ \E b \in queued, d \in ClockSteps :
                /\ fills' = Append(fills, LastNs + d)
                /\ queued' = queued \ {b}
                /\ held' = Some(b)
                /\ heldFill' = Len(fills) + 1
          /\ pc' = "frame"
          /\ UNCHANGED failure
       \/ /\ pc' = "stop"
          /\ failure' = "loop"
          /\ UNCHANGED <<fills, queued, held, heldFill>>
    /\ UNCHANGED <<mocVars, attrVars, libOpen, announced, acquiring, callVars,
                   writeVars, consVars>>

\* WaitForFinishedBuffer once the recorded hardware history is full: the
\* camera keeps delivering frames for as long as it is acquiring; the model
\* stops distinguishing them and lets the buffer repeat the last recorded
\* fill.  Only the specification with fairness uses this action, so that
\* the loop can run forever unless the code ends it.
WaitForFurtherBuffer ==
    /\ pc = "wait"
    /\ Len(fills) = MaxFrames
    /\ \E b \in queued :
          /\ queued' = queued \ {b}
          /\ held' = Some(b)
          /\ heldFill' = Len(fills)
    /\ pc' = "frame"
    /\ UNCHANGED <<mocVars, failure, attrVars, libOpen, announced, acquiring, fills, callVars,
                   writeVars, consVars>>

\* UpdateChunkNodes, BufferToImage, cvtColor, resize; self.frame = ...
PublishFrame ==
    /\ pc = "frame"
    /\ \/ /\ frame' = Some(Decode(heldFill, resize))
          /\ frameWrites' = Bump(frameWrites)
          /\ pc' = "timestamp"
          /\ UNCHANGED failure
       \/ /\ pc' = "stop"
          /\ failure' = "loop"
          /\ UNCHANGED <<frame, frameWrites>>
    /\ UNCHANGED <<mocVars, running, resize, timestamp, timing_offset, held, heldFill,
                   sdkVars, callVars, tsWrites, consVars>>

\* Mutant of PublishTimestamp: the timestamp is stored only while none is
\* stored yet, so later buffers keep the first one.
PublishTimestampKeepsFirst ==
    /\ pc = "timestamp"
    /\ \/ /\ timestamp' = IF timestamp = None
                          THEN Some(ToTimedelta(fills[heldFill]))
                          ELSE timestamp
          /\ tsWrites' = Bump(tsWrites)
          /\ pc' = "requeue"
          /\ UNCHANGED failure
       \/ /\ pc' = "stop"
          /\ failure' = "loop"
          /\ UNCHANGED <<timestamp, tsWrites>>
    /\ UNCHANGED <<mocVars, running, resize, frame, timing_offset, held, heldFill,
                   sdkVars, callVars, frameWrites, consVars>>

\* FindNode("ChunkTimestamp").Value(); self.timestamp = timedelta(...)
PublishTimestamp ==
    /\ pc = "timestamp"
    /\ \/ /\ timestamp' = Some(ToTimedelta(fills[heldFill]))
          /\ tsWrites' = Bump(tsWrites)
          /\ pc' = "requeue"
          /\ UNCHANGED failure
       \/ /\ pc' = "stop"
          /\ failure' = "loop"
          /\ UNCHANGED <<timestamp, tsWrites>>
    /\ UNCHANGED <<mocVars, running, resize, frame, timing_offset, held, heldFill,
                   sdkVars, callVars, frameWrites, consVars>>

\* Mutant of Requeue: the iteration ends without data_stream.QueueBuffer,
\* the buffer variable is simply dropped.
RequeueForgotten ==
    /\ pc = "requeue"
    /\ held' = None
    /\ pc' = "loop"
    /\ UNCHANGED <<mocVars, failure, attrVars, heldFill, sdkVars, callVars,
                   writeVars, consVars>>

\* data_stream.QueueBuffer(buffer) at the end of the iteration
Requeue ==
    /\ pc = "requeue"
    /\ \/ /\ queued' = QueueBuffer(queued, Val(held))
          /\ doubleQueued' = (doubleQueued \/ Val(held) \in queued)
          /\ held' = None
          /\ pc' = "loop"
          /\ UNCHANGED failure
       \/ /\ pc' = "stop"
          /\ failure' = "loop"
          /\ UNCHANGED <<queued, doubleQueued, held>>
    /\ UNCHANGED <<mocVars, attrVars, heldFill, libOpen, announced, acquiring, fills,
                   initCalls, closeCalls, startCalls, stopCalls, revokeCalls,
                   announceCalls, enteredLoop, writeVars, consVars>>

\* Mutant of StopAcquisition: the data stream is not flushed, the queued
\* buffers stay with the hardware.
StopAcquisitionNoFlush ==
    /\ pc = "stop"
    /\ acquiring' = FALSE
    /\ stopCalls' = stopCalls + 1
    /\ pc' = "revoke"
    /\ UNCHANGED <<mocVars, failure, attrVars, held, heldFill, libOpen,
                   announced, queued, fills, initCalls, closeCalls,
                   startCalls, revokeCalls, announceCalls, doubleQueued,
                   enteredLoop, writeVars, consVars>>

\* AcquisitionStop, StopAcquisition(Default), Flush(DiscardAll)
StopAcquisition ==
    /\ pc = "stop"
    /\ acquiring' = FALSE
    /\ stopCalls' = stopCalls + 1
    /\ queued' = {}
    /\ pc' = "revoke"
    /\ UNCHANGED <<mocVars, failure, attrVars, held, heldFill, libOpen, announced, fills,
                   initCalls, closeCalls, startCalls, revokeCalls,
                   announceCalls, doubleQueued, enteredLoop, writeVars,
                   consVars>>

\* Mutant of RevokeBuffer: the loop leaves after the first buffer.
RevokeBufferFirstOnly ==
    /\ pc = "revoke"
    /\ IF announced # {} /\ revokeCalls = 0
       THEN LET b == CHOOSE x \in announced : \A y \in announced : x <= y IN
                /\ announced' = announced \ {b}
                /\ revokeCalls' = revokeCalls + 1
                /\ held' = IF held = Some(b) THEN None ELSE held
                /\ pc' = "revoke"
       ELSE /\ pc' = "finally"
            /\ UNCHANGED <<announced, revokeCalls, held>>
    /\ UNCHANGED <<mocVars, failure, attrVars, heldFill, libOpen, queued, acquiring, fills,
                   initCalls, closeCalls, startCalls, stopCalls,
                   announceCalls, doubleQueued, enteredLoop, writeVars,
                   consVars>>

\* for buffer in AnnouncedBuffers(): RevokeBuffer(buffer), in the order of
\* the list (the order of announcement); after the last: TLParamsLocked = 0
RevokeBuffer ==
    /\ pc = "revoke"
    /\ IF announced # {}
       THEN LET b == CHOOSE x \in announced : \A y \in announced : x <= y IN
                /\ announced' = announced \ {b}
                /\ revokeCalls' = revokeCalls + 1
                /\ held' = IF held = Some(b) THEN None ELSE held
                /\ pc' = "revoke"
       ELSE /\ pc' = "finally"
            /\ UNCHANGED <<announced, revokeCalls, held>>
    /\ UNCHANGED <<mocVars, failure, attrVars, heldFill, libOpen, queued, acquiring, fills,
                   initCalls, closeCalls, startCalls, stopCalls,
                   announceCalls, doubleQueued, enteredLoop, writeVars,
                   consVars>>

\* except Exception as e: print("Camera setup failed")
ExceptHandler ==
    /\ pc = "except"
    /\ pc' = "finally"
    /\ UNCHANGED <<mocVars, failure, attrVars, held, heldFill, sdkVars, callVars, writeVars,
                   consVars>>

\* Mutant of Finally: the teardown also resets the cache to None.
FinallyClearsCache ==
    /\ pc = "finally"
    /\ libOpen' = FALSE
    /\ closeCalls' = closeCalls + 1
    /\ frame' = None
    /\ timestamp' = None
    /\ pc' = "done"
    /\ UNCHANGED <<mocVars, failure, running, resize, timing_offset, held,
                   heldFill, announced, queued, acquiring, fills, initCalls,
                   startCalls, stopCalls, revokeCalls, announceCalls,
                   doubleQueued, enteredLoop, writeVars, consVars>>

\* finally: ids_peak.Library.Close()
Finally ==
    /\ pc = "finally"
    /\ libOpen' = FALSE
    /\ closeCalls' = closeCalls + 1
    /\ pc' = "done"
    /\ UNCHANGED <<mocVars, failure, attrVars, held, heldFill, announced, queued, acquiring,
                   fills, initCalls, startCalls, stopCalls, revokeCalls,
                   announceCalls, doubleQueued, enteredLoop, writeVars,
                   consVars>>

camera_loop ==
    \/ LibraryInitialize
    \/ DeviceUpdate
    \/ Configure
    \/ AllocAndAnnounce
    \/ StartAcquisition
    \/ LoopHead
    \/ WaitForFinishedBuffer
    \/ WaitForFurtherBuffer
    \/ PublishFrame
    \/ PublishTimestamp
    \/ Requeue
    \/ StopAcquisition
    \/ RevokeBuffer
    \/ ExceptHandler
    \/ Finally

\* ---------------------------------------------------------------------
\* The consumer thread: calls on the CameraStream handle, one at a time.
\* ---------------------------------------------------------------------

\* Mutant of start_timing: a zero timedelta is stored when no timestamp
\* exists yet.
start_timing_default_zero ==
    /\ c_pc = "idle"
    /\ timing_offset' = IF timestamp = None THEN Some(0) ELSE timestamp
    /\ t0Src' = tsWrites
    /\ timed' = TRUE
    /\ UNCHANGED <<mocVars, failure, running, resize, timestamp, frame, pc, held, heldFill,
                   sdkVars, callVars, writeVars, c_pc, r_off, r_ts, r_tsSrc,
                   r_w0, r_after, ret, retInfo, c_err, stops>>

\* __init__ returns the stream to its caller; nothing in it waits for the
\* thread or looks at what the thread has done
InitReturn ==
    /\ c_pc = "init"
    /\ c_pc' = "idle"
    /\ UNCHANGED <<mocVars, failure, attrVars, pc, held, heldFill, sdkVars,
                   callVars, writeVars, r_off, r_ts, r_tsSrc, r_w0, r_after, ret,
                   retInfo, c_err, stops, t0Src, timed>>

\* start_timing(): self.timing_offset = self.timestamp
start_timing ==
    /\ c_pc = "idle"
    /\ timing_offset' = timestamp
    /\ t0Src' = tsWrites
    /\ timed' = TRUE
    /\ UNCHANGED <<mocVars, failure, running, resize, timestamp, frame, pc, held, heldFill,
                   sdkVars, callVars, writeVars, c_pc, r_off, r_ts, r_tsSrc,
                   r_w0, r_after, ret, retInfo, c_err, stops>>

\* get_current_data(), line 137: `if self.timing_offset is not None`
GetTestOffset ==
    /\ c_pc = "idle"
    /\ r_off' = timing_offset
    /\ r_w0' = <<frameWrites, tsWrites>>
    /\ r_after' = (pc = "done")
    /\ c_pc' = "get_timestamp"
    /\ UNCHANGED <<mocVars, failure, attrVars, pc, held, heldFill, sdkVars, callVars,
                   writeVars, r_ts, r_tsSrc, ret, retInfo, c_err, stops,
                   t0Src, timed>>

\* timestamp = self.timestamp - self.timing_offset if an offset was seen,
\* else self.timestamp
Relativize(ts, off) ==
    IF off = None THEN ts ELSE Some(Val(ts) - Val(off))

\* get_current_data(), line 138 or 140: the read of self.timestamp; None
\* minus a timedelta raises TypeError to the caller
GetTimestamp ==
    /\ c_pc = "get_timestamp"
    /\ IF r_off # None /\ timestamp = None
       THEN /\ c_err' = TRUE
            /\ c_pc' = "idle"
            /\ r_off' = None
            /\ r_w0' = <<0, 0>>
            /\ r_after' = FALSE
            /\ UNCHANGED <<r_ts, r_tsSrc>>
       ELSE /\ r_ts' = Relativize(timestamp, r_off)
            /\ r_tsSrc' = tsWrites
            /\ c_pc' = "get_frame"
            /\ UNCHANGED <<c_err, r_off, r_w0, r_after>>
    /\ UNCHANGED <<mocVars, failure, attrVars, pc, held, heldFill, sdkVars, callVars,
                   writeVars, ret, retInfo, stops, t0Src, timed>>

\* get_current_data(), line 142: the read of self.frame and the return
GetFrame ==
    /\ c_pc = "get_frame"
    /\ ret' = Some([timestamp |-> r_ts, frame |-> frame])
    /\ retInfo' = [relative |-> (r_off # None), w0 |-> r_w0, after |-> r_after,
                   w1 |-> <<frameWrites, tsWrites>>, src |-> r_tsSrc,
                   t0 |-> t0Src]
    /\ c_pc' = "idle"
    /\ r_off' = None
    /\ r_ts' = None
    /\ r_tsSrc' = 0
    /\ r_w0' = <<0, 0>>
    /\ r_after' = FALSE
    /\ UNCHANGED <<mocVars, failure, attrVars, pc, held, heldFill, sdkVars, callVars,
                   writeVars, c_err, stops, t0Src, timed>>

\* Mutant of stop: it also forgets the time zero set by start_timing().
stop_resets_offset ==
    /\ c_pc = "idle"
    /\ stops < MaxStops
    /\ running' = FALSE
    /\ timing_offset' = None
    /\ c_pc' = "join"
    /\ UNCHANGED <<mocVars, failure, resize, timestamp, frame, pc, held,
                   heldFill, sdkVars, callVars, writeVars, r_off, r_ts,
                   r_tsSrc, r_w0, r_after, ret, retInfo, c_err, stops, t0Src,
                   timed>>

\* stop(), line 148: self.running = False
stop ==
    /\ c_pc = "idle"
    /\ stops < MaxStops
    /\ running' = FALSE
    /\ c_pc' = "join"
    /\ UNCHANGED <<mocVars, failure, resize, timestamp, frame, timing_offset, pc, held,
                   heldFill, sdkVars, callVars, writeVars, r_off, r_ts,
                   r_tsSrc, r_w0, r_after, ret, retInfo, c_err, stops, t0Src, timed>>

\* stop(), line 149: self.thread.join() returns once camera_loop has ended
Join ==
    /\ c_pc = "join"
    /\ pc = "done"
    /\ c_pc' = "idle"
    /\ stops' = stops + 1
    /\ UNCHANGED <<mocVars, failure, attrVars, pc, held, heldFill, sdkVars, callVars,
                   writeVars, r_off, r_ts, r_tsSrc, r_w0, r_after, ret, retInfo,
                   c_err, t0Src, timed>>

consumer ==
    \/ InitReturn
    \/ start_timing
    \/ GetTestOffset
    \/ GetTimestamp
    \/ GetFrame
    \/ stop
    \/ Join


\* ---------------------------------------------------------------------
\* MoCapStream
\* ---------------------------------------------------------------------
NumIds == 3
Ids == 1..NumIds
FrameTimes == {50, 75}
Positions == {"p", "q"}
Rotations == {"r"}

\* np.array(x)
NpArray(x) == [ndarray |-> x]

\* the attributes the class MoCapStream defines
MoCapMethods ==
    {"__init__", "new_frame_listener", "rigid_body_listener",
     "get_current_rigid_body_pose", "stop"}

\* getattr(self, name): a method of the class or an attribute set so far
HasAttr(name, attrs) == name \in MoCapMethods \cup attrs

\* the attribute __init__ reads for client.rigid_body_listener (line 36)
RigidBodyListenerAttr == "rigid_body_listenerc"

NoPoses == [id \in Ids |-> None]

MoCapInitState ==
    /\ m_pc = "new"
    /\ m_exc = None
    /\ m_attrs = {}
    /\ client = [rigid_body_listener |-> None, new_frame_listener |-> None,
                 running |-> FALSE, shutdowns |-> 0]
    /\ latest_timestamp = None
    /\ rigid_body_poses = NoPoses
    /\ serverUp = FALSE
    /\ srvTs = None
    /\ sent = NoPoses
    /\ m_ret = None
    /\ m_err = FALSE
    /\ m_stops = 0
    /\ m_zero = None

\* MoCapStream(client_ip, server_ip): __init__ runs in the caller's thread;
\* nothing else runs on the object before it returns or raises.  serverUp
\* is whether client.run("d") can succeed at the time of the call.
MoCapInit ==
    /\ m_pc = "new"
    /\ serverUp' \in BOOLEAN
    /\ IF ~HasAttr(RigidBodyListenerAttr, {"client"})
       THEN \* line 36 raises AttributeError
            /\ m_attrs' = {"client"}
            /\ m_exc' = Some("AttributeError")
            /\ m_pc' = "raised"
            /\ UNCHANGED <<client, latest_timestamp, rigid_body_poses>>
       ELSE /\ m_attrs' = {"client", "latest_timestamp", "rigid_body_poses"}
            /\ latest_timestamp' = None
            /\ rigid_body_poses' = NoPoses
            /\ client' = [rigid_body_listener |-> Some(RigidBodyListenerAttr),
                          new_frame_listener |-> Some("new_frame_listener"),
                          running |-> serverUp', shutdowns |-> 0]
            /\ IF serverUp'
               THEN m_pc' = "constructed" /\ UNCHANGED m_exc
               ELSE m_pc' = "raised" /\ m_exc' = Some("RuntimeError")
    /\ UNCHANGED <<camVars, srvTs, sent, m_ret, m_err, m_stops, m_zero>>

\* new_frame_listener(frame_data): latest_timestamp = frame_data.get(...)
new_frame_listener(ts) == Some(ts)

\* rigid_body_listener(id, position, rotation): the dictionary afterwards
rigid_body_listener(poses, latest, id, position, rotation) ==
    [poses EXCEPT ![id] = Some([position |-> NpArray(position),
                                rotation |-> NpArray(rotation),
                                timestamp |-> latest])]

\* get_current_rigid_body_pose(id): the entry, or None for a missing key
get_current_rigid_body_pose(poses, id) ==
    IF poses[id] # None THEN poses[id] ELSE None

\* a listener of the client is called only while the client runs and the
\* listener is set
Dispatches(listener) == client.running /\ listener # None

\* The server streams a frame with timestamp ts to the client's address; a
\* running client calls its new_frame_listener.
ServerFrame ==
    /\ m_pc # "new"
    /\ \E ts \in FrameTimes :
          /\ srvTs' = Some(ts)
          /\ latest_timestamp' =
                IF Dispatches(client.new_frame_listener)
                THEN new_frame_listener(ts) ELSE latest_timestamp
    /\ UNCHANGED <<camVars, m_pc, m_exc, m_attrs, client, rigid_body_poses,
                   serverUp, sent, m_ret, m_err, m_stops, m_zero>>

\* The server streams the pose of a rigid body; a running client calls its
\* rigid_body_listener.  sent[id] is what a client that received every
\* callback would hold for id.
ServerPose ==
    /\ m_pc # "new"
    /\ \E id \in Ids, position \in Positions, rotation \in Rotations :
          /\ sent' = [sent EXCEPT ![id] =
                          Some([position |-> NpArray(position),
                                rotation |-> NpArray(rotation),
                                timestamp |-> srvTs])]
          /\ rigid_body_poses' =
                IF Dispatches(client.rigid_body_listener)
                THEN rigid_body_listener(rigid_body_poses, latest_timestamp,
                                         id, position, rotation)
                ELSE rigid_body_poses
    /\ UNCHANGED <<camVars, m_pc, m_exc, m_attrs, client, latest_timestamp,
                   serverUp, srvTs, m_ret, m_err, m_stops, m_zero>>

\* what a call of get_current_rigid_body_pose(id) gives the caller: the
\* value, or no value at all when the constructor returned no stream
PoseRead(id) ==
    IF m_pc = "constructed"
    THEN [ok |-> TRUE,
          value |-> get_current_rigid_body_pose(rigid_body_poses, id)]
    ELSE [ok |-> FALSE, value |-> None]

\* the caller reads the pose of a rigid body
MoCapGet ==
    /\ m_pc # "new"
    /\ \E id \in Ids :
          /\ m_ret' = Some([id |-> id, result |-> PoseRead(id)])
          /\ m_err' = (m_err \/ ~PoseRead(id).ok)
    /\ UNCHANGED <<camVars, m_pc, m_exc, m_attrs, client, latest_timestamp,
                   rigid_body_poses, serverUp, srvTs, sent, m_stops, m_zero>>

\* the caller marks time zero on the motion-capture stream: MoCapStream has
\* no start_timing and no offset attribute, the call is an AttributeError
MoCapStartTiming ==
    /\ m_pc # "new"
    /\ m_zero' = srvTs
    /\ m_err' = (m_err \/ ~HasAttr("start_timing", m_attrs))
    /\ UNCHANGED <<camVars, m_pc, m_exc, m_attrs, client, latest_timestamp,
                   rigid_body_poses, serverUp, srvTs, sent, m_ret, m_stops>>

\* stop(): self.client.shutdown(); without a stream there is nothing to call
MoCapStop ==
    /\ m_pc # "new"
    /\ m_stops < MaxStops
    /\ m_stops' = m_stops + 1
    /\ IF m_pc = "constructed"
       THEN /\ client' = [client EXCEPT !.running = FALSE,
                                        !.shutdowns = @ + 1]
            /\ UNCHANGED m_err
       ELSE /\ m_err' = TRUE
            /\ UNCHANGED client
    /\ UNCHANGED <<camVars, m_pc, m_exc, m_attrs, latest_timestamp,
                   rigid_body_poses, serverUp, srvTs, sent, m_ret, m_zero>>

Init == CameraInit /\ MoCapInitState

Next ==
    \/ LibraryInitialize
    \/ DeviceUpdate
    \/ Configure
    \/ AllocAndAnnounce
    \/ StartAcquisition
    \/ LoopHead
    \/ WaitForFinishedBuffer
    \/ PublishFrame
    \/ PublishTimestamp
    \/ Requeue
    \/ StopAcquisition
    \/ RevokeBuffer
    \/ ExceptHandler
    \/ Finally
    \/ InitReturn
    \/ start_timing
    \/ GetTestOffset
    \/ GetTimestamp
    \/ GetFrame
    \/ stop
    \/ Join

vars == <<camVars, mocVars>>

Spec == Init /\ [][Next]_vars

\* The motion-capture stream with its server and its caller.
NextM ==
    \/ MoCapInit
    \/ ServerFrame
    \/ ServerPose
    \/ MoCapGet
    \/ MoCapStartTiming
    \/ MoCapStop

SpecM == Init /\ [][NextM]_vars

NextLive == Next \/ WaitForFurtherBuffer

\* The interpreter keeps scheduling the daemon thread and every SDK call
\* returns or raises, so camera_loop always takes its next step; a join on
\* a finished thread returns.
FairSpec ==
    Init /\ [][NextLive]_vars /\ WF_vars(camera_loop) /\ WF_vars(Join)

\* ---------------------------------------------------------------------
\* Bookkeeping of the model: the k-th write of self.frame and of
\* self.timestamp both come from the k-th hardware fill.
\* ---------------------------------------------------------------------
Provenance ==
    /\ frameWrites \in {tsWrites, tsWrites + 1}
    /\ frame = IF frameWrites = 0 THEN None
               ELSE Some(Decode(frameWrites, resize))
    /\ timestamp = IF tsWrites = 0 THEN None
                   ELSE Some(ToTimedelta(fills[tsWrites]))

Returned == Val(ret)

\* ---------------------------------------------------------------------
\* Claims
\* ---------------------------------------------------------------------

\* C1: get_current_data() running concurrently with camera_loop never
\* returns a torn sample: the returned frame and the timestamp underlying
\* the returned timestamp come from the same buffer (both None before the
\* first buffer).
C1_NoTornSample ==
    ret # None =>
        IF Returned.frame = None THEN retInfo.src = 0
        ELSE Val(Returned.frame).image = retInfo.src

\* C2: after N >= 1 completed buffers and no cache write during the call, a
\* get_current_data() that saw no timing offset returns exactly the frame
\* and the timestamp of the N-th buffer.
C2_LatestValue ==
    (/\ ret # None
     /\ ~retInfo.relative
     /\ retInfo.w0 = retInfo.w1
     /\ retInfo.w0[1] = retInfo.w0[2]
     /\ retInfo.w0[2] >= 1)
    => LET N == retInfo.w0[2] IN
       /\ Returned.frame = Some(Decode(N, resize))
       /\ Returned.timestamp = Some(ToTimedelta(fills[N]))

\* C2 witness: a read returned after two completed buffers, undisturbed,
\* with the values of the second one.
C2_Witness ==
    /\ ret # None
    /\ ~retInfo.relative
    /\ retInfo.w0 = <<2, 2>>
    /\ retInfo.w1 = <<2, 2>>
    /\ Returned.frame = Some(Decode(2, resize))
    /\ fills[1] # fills[2]

\* C3: without start_timing() a read returns the latest absolute (hardware,
\* nanosecond) timestamp T unchanged; after start_timing() at absolute
\* timestamp T0 it returns T - T0.  The returned timedelta is compared as a
\* duration in nanoseconds.
C3_RelativeTimeNs ==
    (ret # None /\ Returned.timestamp # None) =>
        LET T == fills[retInfo.src]
            T0 == fills[retInfo.t0]
        IN  Val(Returned.timestamp) * 1000 =
                IF retInfo.relative THEN T - T0 ELSE T

C5_ReleasedExactlyOnce ==
    pc = "done" =>
        /\ initCalls = 1
        /\ closeCalls = 1
        /\ ~libOpen
        /\ stopCalls = startCalls
        /\ revokeCalls = announceCalls
        /\ announced = {}

C8_StaleReadsNeverFail ==
    /\ ~c_err
    /\ (timing_offset # None => timestamp # None)
    /\ (tsWrites = 0 => timing_offset = None)
    /\ (ret # None /\ retInfo.w1 = <<0, 0>> =>
            Returned = [timestamp |-> None, frame |-> None])
    /\ (c_pc = "get_timestamp" => ENABLED GetTimestamp)
    /\ (c_pc = "get_frame" => ENABLED GetFrame)

\* C8 witness: start_timing() was called before any frame, and a read that
\* followed it returned the None/None sentinel.
C8_Witness ==
    /\ timed
    /\ timing_offset = None
    /\ frameWrites = 0
    /\ ret # None
    /\ Returned = [timestamp |-> None, frame |-> None]

\* C7, CameraStream half: a stop() called after a stop() has returned
\* changes nothing of the stream, the thread or the hardware session.
C7_CameraStopIdempotent ==
    [][(stops >= 1 /\ (c_pc = "join" \/ c_pc' = "join")) =>
            UNCHANGED <<attrVars, pc, held, sdkVars, callVars, writeVars>>]_vars

\* C7: on both streams stop() raises no error, and a stop() after the first
\* changes no observable state: not the running flag, the cache or the
\* hardware session of the camera, and not the client state or the pose
\* table of the motion-capture stream.
C7_IdempotentStop ==
    /\ C7_CameraStopIdempotent
    /\ [][m_stops' > m_stops =>
            /\ ~m_err'
            /\ (m_stops >= 1 =>
                  /\ client'.running = client.running
                  /\ UNCHANGED <<latest_timestamp, rigid_body_poses>>)]_vars

\* C9: once the stream was constructed against a reachable server, reading
\* id gives the position and rotation of the last pose callback for id with
\* the timestamp of the frame callback before it, and None for an id that
\* had no callback; a pose callback for one id leaves the others unchanged.
C9_KeyedLatestValue ==
    (m_pc # "new" /\ serverUp) =>
        \A id \in Ids : PoseRead(id) = [ok |-> TRUE, value |-> sent[id]]

\* C10: before time zero is marked on the motion-capture stream a read
\* returns the absolute pose timestamp T, after it was marked at T0 it
\* returns T - T0.
C10_MocapRelativeTime ==
    (m_pc # "new" /\ serverUp) =>
        \A id \in Ids :
            (sent[id] # None /\ Val(sent[id]).timestamp # None) =>
                /\ PoseRead(id).ok
                /\ PoseRead(id).value # None
                /\ Val(PoseRead(id).value).timestamp =
                      IF m_zero = None THEN Val(sent[id]).timestamp
                      ELSE Some(Val(Val(sent[id]).timestamp) - Val(m_zero))

\* C11: MoCapStream(...) returns a stream with both listeners registered and
\* an empty pose table whenever the NatNet client starts, and raises to the
\* caller only when the client fails to start.
C11_ConstructorOutcome ==
    [][(m_pc = "new" /\ m_pc' # "new") =>
            IF serverUp'
            THEN /\ m_pc' = "constructed"
                 /\ m_exc' = None
                 /\ client'.rigid_body_listener # None
                 /\ client'.new_frame_listener # None
                 /\ client'.running
                 /\ rigid_body_poses' = NoPoses
            ELSE /\ m_pc' = "raised"
                 /\ m_exc' # None]_vars

\* a failure of camera_loop before its acquisition loop: no device (line
\* 55), or an exception of lines 54-82 caught at line 117
SetupFailed == failure \in {"nodevice", "setup"}

\* C12: when camera setup fails, CameraStream(...) does not return normally
\* to its caller.
C12_SetupFailurePropagates ==
    SetupFailed => c_pc = "init"

\* the step of camera_loop in which WaitForFinishedBuffer(1000) raises: the
\* wait ends without a buffer in the hands of the software
WaitTimesOut == pc = "wait" /\ pc' # "wait" /\ held' = None

C14_SetupFailureNotRunning ==
    (pc = "done" /\ SetupFailed) => ~enteredLoop /\ ~running

\* C15: an error inside the wait/decode step ends the loop and runs the
\* shutdown sequence (acquisition stop, flush, revoke of every announced
\* buffer); once the thread has ended after it, running is False.
C15_LoopFailureNotRunning ==
    (pc = "done" /\ failure = "loop") =>
        /\ stopCalls = 1
        /\ ~acquiring
        /\ queued = {}
        /\ announced = {}
        /\ ~running

\* C17: every iteration of the loop publishes all or nothing: whenever
\* camera_loop is between iterations or has ended, the cached frame and the
\* cached timestamp come from the same buffer (or both are still None), and
\* an iteration that fails leaves both unchanged.
C17_AllOrNothing ==
    pc \in {"loop", "wait", "stop", "revoke", "finally", "done"} =>
        /\ frameWrites = tsWrites
        /\ (frame = None <=> timestamp = None)
        /\ (frame # None =>
              timestamp = Some(ToTimedelta(fills[Val(frame).image])))

\* the buffers in the hands of the software: the one WaitForFinishedBuffer
\* returned and the loop has not queued again
HeldBuffers == IF held = None THEN {} ELSE {Val(held)}

\* C16: buffers are announced only during setup, never inside the loop;
\* while acquisition runs (from StartAcquisition to the stop and flush of
\* the shutdown sequence) every announced buffer is either queued to the
\* hardware or held by the software, never both; WaitForFinishedBuffer hands
\* a buffer to the software only when it holds none; and the only buffer
\* queued while acquisition runs is the one the software holds.
C16_BufferOwnership ==
    /\ [](acquiring =>
            /\ announced = Buffers
            /\ announced = queued \cup HeldBuffers
            /\ queued \cap HeldBuffers = {})
    /\ [][~(announced' \subseteq announced) =>
            pc = "alloc" /\ ~acquiring /\ ~enteredLoop]_vars
    /\ [][(pc = "wait" /\ held' # None) =>
            /\ held = None
            /\ Val(held') \in queued
            /\ queued' = queued \ {Val(held')}]_vars
    /\ [][(acquiring /\ ~(queued' \subseteq queued)) =>
            /\ pc = "requeue"
            /\ held # None
            /\ Val(held) \notin queued
            /\ queued' = queued \cup {Val(held)}
            /\ held' = None]_vars

\* C16 witness: in the second iteration the software holds the buffer it
\* got from the wait while the other buffer is queued, the first iteration
\* having requeued its buffer.
C16_Witness ==
    /\ pc = "requeue"
    /\ acquiring
    /\ tsWrites = 2
    /\ held # None
    /\ queued = announced \ HeldBuffers
    /\ queued # {}

\* C18: every RevokeBuffer call comes after acquisition was stopped and the
\* stream flushed, so no buffer is queued to the hardware when it is made;
\* and acquisition is started only once every announced buffer is queued.
C18_ShutdownOrdering ==
    /\ [][revokeCalls' > revokeCalls =>
            /\ stopCalls = 1
            /\ ~acquiring
            /\ queued = {}]_vars
    /\ [][startCalls' > startCalls =>
            /\ announceCalls = NumBuffers
            /\ announced = Buffers
            /\ queued = announced]_vars

\* C18 witness: the revoke loop is under way after a session that
\* published a buffer.
C18_Witness ==
    /\ pc = "revoke"
    /\ revokeCalls = 1
    /\ announced # {}
    /\ startCalls = 1
    /\ tsWrites >= 1

\* C19: once camera_loop has ended, for whatever reason, no call of the
\* consumer raises or waits, the cache stays what the last writes of the
\* thread made it (None where nothing was written), and every
\* get_current_data() begun after the end returns the cached frame and the
\* cached timestamp, less the offset it saw if start_timing() had set one.
C19_ErrorsContained ==
    /\ [](pc = "done" =>
            /\ ~c_err
            /\ frame = IF frameWrites = 0 THEN None
                       ELSE Some(Decode(frameWrites, resize))
            /\ timestamp = IF tsWrites = 0 THEN None
                           ELSE Some(ToTimedelta(fills[tsWrites]))
            /\ (c_pc = "idle" => ENABLED GetTestOffset)
            /\ (c_pc = "get_timestamp" => ENABLED GetTimestamp)
            /\ (c_pc = "get_frame" => ENABLED GetFrame))
    /\ [][pc = "done" => pc' = "done" /\ UNCHANGED <<frame, timestamp>>]_vars
    /\ [](ret # None /\ retInfo.after =>
            /\ Returned.frame = frame
            /\ Returned.timestamp =
                  IF retInfo.relative
                  THEN Some(Val(timestamp) - ToTimedelta(fills[retInfo.t0]))
                  ELSE timestamp
            /\ (tsWrites = 0 /\ frameWrites = 0 =>
                  Returned = [timestamp |-> None, frame |-> None]))

\* C19 witness: the loop ended on a streaming exception after publishing a
\* buffer, and a read begun after the end of the thread returned that
\* buffer's frame and timestamp.
C19_Witness ==
    /\ pc = "done"
    /\ failure = "loop"
    /\ ret # None
    /\ retInfo.after
    /\ tsWrites = 1
    /\ Returned.frame = Some(Decode(1, resize))
    /\ Returned.timestamp = Some(ToTimedelta(fills[1]))

\* what camera_loop owns besides the cache: its position, its buffers and
\* the hardware session
threadVars == <<pc, held, heldFill, sdkVars, callVars, writeVars, failure>>

\* C20: the cached frame and timestamp change only in the two publishing
\* steps of camera_loop; the steps of get_current_data() change no
\* attribute of the stream and nothing of the thread or the hardware;
\* start_timing() changes only timing_offset, to the cached timestamp; the
\* steps of stop() change only running, to False, and never the cache or
\* the offset; and no consumer call touches the thread or the hardware.
C20_FrameConditions ==
    /\ [][<<frame, timestamp>>' # <<frame, timestamp>> =>
            /\ pc \in {"frame", "timestamp"}
            /\ pc' \in {"timestamp", "requeue"}
            /\ UNCHANGED <<consVars, running, resize, timing_offset>>]_vars
    /\ [][(c_pc' # c_pc /\ (c_pc' = "get_timestamp" \/
                            c_pc \in {"get_timestamp", "get_frame"})) =>
            UNCHANGED <<attrVars, threadVars>>]_vars
    /\ [][(timing_offset' # timing_offset \/ timed' # timed \/
           t0Src' # t0Src) =>
            /\ c_pc = "idle"
            /\ timing_offset' = timestamp
            /\ UNCHANGED <<running, resize, timestamp, frame, threadVars>>]_vars
    /\ [][(c_pc' # c_pc /\ (c_pc' = "join" \/ c_pc = "join")) =>
            /\ running' = FALSE
            /\ UNCHANGED <<resize, timestamp, frame, timing_offset,
                           threadVars>>]_vars
    /\ [][consVars' # consVars => UNCHANGED <<timestamp, frame, threadVars>>]_vars

\* C20 witness: with a frame in the cache the consumer has set time zero,
\* read the data and stopped the stream.
C20_Witness ==
    /\ stops >= 1
    /\ c_pc = "idle"
    /\ timed
    /\ timing_offset # None
    /\ ret # None
    /\ retInfo.relative
    /\ frame # None

====
